---- MODULE Spec2Model ----
(***************************************************************************)
(* Order workflow of the Food Delivery Management repository.              *)
(*                                                                         *)
(* Two back ends write the same SQLite store "food_db.db":                 *)
(*   claude_logic.py  (DatabaseManager + manager classes, used by the UI)  *)
(*   backend_logic.py (module-level execute_query + manager classes)       *)
(* Operations of claude_logic keep their source names; the operations of   *)
(* backend_logic carry the prefix bl_.                                     *)
(*                                                                         *)
(* A table is a function from rowid to row.  Payload columns that no       *)
(* statement of the workflow reads back (timestamps, address, distance,    *)
(* fee, amount) are left out of the rows.                                  *)
(***************************************************************************)
EXTENDS Integers, Sequences, FiniteSets, TLC

VARIABLES
    orders,      \* table Orders:     order_id -> [dish_req, total_price, status, cus_id]
    bills,       \* table Bills:      bill_id  -> [order_id, emp_id, shipper_id]
    deliveries,  \* table Deliveries: rowid    -> [order_id, shipper_id]
    stock,       \* table Ingredients: ingre_name -> stock
    customers,   \* table Customers: cus_id -> [cus_name, cus_phone]
    employees,   \* table Employees: the emp_id present
    shippers,    \* table Shippers:  the shipper_id present
    last,        \* the last call: its operation, its back end and what it returned
    issued,      \* the ids that create_order calls have returned so far
    place,       \* progress of the composed order placement
    reader,      \* a concurrent reader: its position and what its queries returned
    gw,          \* one Query Executor call step by step, and the open connection handles
    cc,          \* two concurrent create_order calls, step by step, and the write lock
    ca           \* two concurrent CustomerManager.add calls, step by step

store == <<orders, bills, deliveries, stock, customers, employees, shippers>>
vars == <<orders, bills, deliveries, stock, customers, employees, shippers,
          last, issued, place, reader, gw, cc, ca>>

----------------------------------------------------------------------------
(* Bounds of the model *)

MaxOrders == 2
MaxBills == 2
MaxDeliveries == 1
MaxCustomers == 3
MaxHandles == 2

----------------------------------------------------------------------------
(* Values *)

\* Python's None as an id (execute_with_lastrowid returns None on failure)
NoId == 0

\* class OrderStatus(Enum)
OrderStatus == {"Pending", "Preparing", "Ready", "Delivered", "Cancelled"}

\* OrderStatus.PENDING.value
PENDING == "Pending"

\* status strings a caller can pass: the enum's values and one that is no member
StatusArgs == OrderStatus \cup {"Shipped"}

\* what the store does during one call: nothing wrong, sqlite3.connect fails,
\* the statement fails (locked, I/O error), or the commit fails (busy, disk full)
Faults == {"none", "open", "exec", "commit"}

\* dish requests a caller can pass to create_order, and to stock deduction
DishReqs == {"", "Bread"}
Dishes == {"Bread", "Soup"}
Prices == {0, 4}
Ingredients == {"Flour", "Salt"}

\* ids a caller can pass: the rows that can exist and one id that never exists
MissingId == MaxOrders + 1
OrderIdArgs == 1..MissingId
CusIdArgs == {1}
CusNames == {"", "An"}
CusPhones == {"", "0901", "0902"}
IngreNames == {"", "Yeast"}
StockArgs == {-1, 0, 3}
EmpIdArgs == {1, 2}
ShipperIdArgs == {1, 2}

NoRows == [i \in {} |-> 0]

NoCall ==
    [op |-> "none", impl |-> "none", ret |-> "None", rid |-> NoId]

Max(S) == CHOOSE m \in S : \A x \in S : x <= m

----------------------------------------------------------------------------
(* The store: SQLite as the code opens it *)

\* sqlite3.connect(...) followed by no "PRAGMA foreign_keys = ON": SQLite
\* leaves foreign-key enforcement off on such a connection.
foreign_keys == FALSE

\* the rowid SQLite gives the next inserted row (cur.lastrowid after INSERT)
lastrowid(tbl) == IF DOMAIN tbl = {} THEN 1 ELSE Max(DOMAIN tbl) + 1

\* INSERT INTO tbl ... VALUES (row)
Insert(tbl, row) ==
    [i \in DOMAIN tbl \cup {lastrowid(tbl)} |->
        IF i \in DOMAIN tbl THEN tbl[i] ELSE row]

\* the UPDATE with its two parameters in the wrong order: it matches no row
SetStatusParamsSwapped(tbl, oid, s) == tbl

\* the UPDATE without its WHERE clause: it sets the status of every order
SetStatusNoWhere(tbl, oid, s) ==
    [i \in DOMAIN tbl |-> [tbl[i] EXCEPT !.status = s]]

\* UPDATE Orders SET status = ? WHERE order_id = ?
SetStatus(tbl, oid, s) ==
    [i \in DOMAIN tbl |-> IF i = oid THEN [tbl[i] EXCEPT !.status = s] ELSE tbl[i]]

\* does the store accept a row that references these parents
BillRefsExist(oid, emp, shp) ==
    oid \in DOMAIN orders /\ emp \in employees /\ shp \in shippers
DeliveryRefsExist(oid, shp) ==
    oid \in DOMAIN orders /\ shp \in shippers
IntegrityOk(refs) == foreign_keys => refs

----------------------------------------------------------------------------
(* Query Executor of claude_logic.py *)

\* execute_query with the commit inside a finally block: what the statement
\* wrote is committed although the call reports the failure
execute_query_commit_in_finally(f, ok) ==
    IF f = "open" THEN [ret |-> "None", committed |-> FALSE]
    ELSE IF f = "exec" \/ ~ok THEN [ret |-> "None", committed |-> FALSE]
    ELSE IF f = "commit" THEN [ret |-> "None", committed |-> TRUE]
    ELSE [ret |-> "True", committed |-> TRUE]

\* DatabaseManager.execute_query(query, params, commit=True): the statement
\* runs inside "with self.get_connection()"; an sqlite3.Error raised by
\* connect, execute or commit passes through get_connection (rollback, close)
\* and is turned into None.  ok: the statement violates no enforced constraint.
execute_query(f, ok) ==
    IF f = "open" THEN [ret |-> "None", committed |-> FALSE]
    ELSE IF f = "exec" \/ ~ok THEN [ret |-> "None", committed |-> FALSE]
    ELSE IF f = "commit" THEN [ret |-> "None", committed |-> FALSE]
    ELSE [ret |-> "True", committed |-> TRUE]

\* execute_with_lastrowid returning cur.lastrowid although the commit failed
execute_with_lastrowid_uncommitted(f, ok, id) ==
    IF f = "open" THEN [rid |-> NoId, committed |-> FALSE]
    ELSE IF f = "exec" \/ ~ok THEN [rid |-> NoId, committed |-> FALSE]
    ELSE IF f = "commit" THEN [rid |-> id, committed |-> FALSE]
    ELSE [rid |-> id, committed |-> TRUE]

\* DatabaseManager.execute_with_lastrowid(query, params): last_id is returned
\* only after conn.commit() succeeded.
execute_with_lastrowid(f, ok, id) ==
    IF f = "open" THEN [rid |-> NoId, committed |-> FALSE]
    ELSE IF f = "exec" \/ ~ok THEN [rid |-> NoId, committed |-> FALSE]
    ELSE IF f = "commit" THEN [rid |-> NoId, committed |-> FALSE]
    ELSE [rid |-> id, committed |-> TRUE]

\* bool(result) of the manager methods
Bool(r) == IF r = "True" THEN "True" ELSE "False"

----------------------------------------------------------------------------
(* Query Executor of backend_logic.py *)

\* execute_query(query, params, commit=True): connect() is called before the
\* try block, so a failure to open raises out of the call; an sqlite3.Error of
\* execute or commit is caught, rolled back and turned into None.
bl_execute_query(f, ok) ==
    IF f = "open" THEN [ret |-> "raise", committed |-> FALSE]
    ELSE IF f = "exec" \/ ~ok THEN [ret |-> "None", committed |-> FALSE]
    ELSE IF f = "commit" THEN [ret |-> "None", committed |-> FALSE]
    ELSE [ret |-> "True", committed |-> TRUE]

\* the connection handling inside backend_logic.OrderManager.create_order:
\* order_id = cur.lastrowid is assigned before conn.commit(), and the except
\* branch does not reset it.
bl_insert_order(f, ok, id) ==
    IF f = "open" THEN [ret |-> "raise", rid |-> NoId, committed |-> FALSE]
    ELSE IF f = "exec" \/ ~ok THEN [ret |-> "None", rid |-> NoId, committed |-> FALSE]
    ELSE IF f = "commit" THEN [ret |-> "id", rid |-> id, committed |-> FALSE]
    ELSE [ret |-> "id", rid |-> id, committed |-> TRUE]

----------------------------------------------------------------------------
(* OrderManager of claude_logic.py *)

OrderRow(dish, price, cus) ==
    [dish_req |-> dish, total_price |-> price, status |-> PENDING, cus_id |-> cus]

\* OrderManager.create_order(dish_req_string, total_price, cus_id)
CreateOrder(dish, price, cus, f) ==
    LET call == [NoCall EXCEPT !.op = "create_order", !.impl = "claude_logic"]
    IN  IF dish = "" \/ price <= 0
        THEN /\ last' = [call EXCEPT !.ret = "None"]
             /\ UNCHANGED <<orders, issued>>
        ELSE LET out == execute_with_lastrowid(f, IntegrityOk(cus \in DOMAIN customers),
                                               lastrowid(orders))
             IN  /\ orders' = IF out.committed
                              THEN Insert(orders, OrderRow(dish, price, cus))
                              ELSE orders
                 /\ last' = [call EXCEPT !.rid = out.rid,
                                         !.ret = IF out.rid # NoId THEN "id" ELSE "None"]
                 /\ issued' = IF out.rid # NoId THEN issued \cup {out.rid} ELSE issued

\* OrderManager.create_bill(order_id, emp_id, shipper_id, total_amount)
CreateBill(oid, emp, shp, f) ==
    LET out == execute_query(f, IntegrityOk(BillRefsExist(oid, emp, shp)))
    IN  /\ bills' = IF out.committed
                    THEN Insert(bills, [order_id |-> oid, emp_id |-> emp,
                                        shipper_id |-> shp])
                    ELSE bills
        /\ last' = [NoCall EXCEPT !.op = "create_bill", !.impl = "claude_logic",
                                  !.ret = Bool(out.ret)]

\* OrderManager.add_delivery(order_id, shipper_id, delivery_addr, distance, fee)
AddDelivery(oid, shp, f) ==
    LET out == execute_query(f, IntegrityOk(DeliveryRefsExist(oid, shp)))
    IN  /\ deliveries' = IF out.committed
                         THEN Insert(deliveries, [order_id |-> oid, shipper_id |-> shp])
                         ELSE deliveries
        /\ last' = [NoCall EXCEPT !.op = "add_delivery", !.impl = "claude_logic",
                                  !.ret = Bool(out.ret)]

\* OrderManager.update_status(order_id, status)
UpdateStatus(oid, s, f) ==
    LET call == [NoCall EXCEPT !.op = "update_status", !.impl = "claude_logic"]
    IN  IF s \notin OrderStatus
        THEN /\ last' = [call EXCEPT !.ret = "False"]
             /\ UNCHANGED orders
        ELSE LET out == execute_query(f, TRUE)
             IN  /\ last' = [call EXCEPT !.ret = Bool(out.ret)]
                 /\ orders' = IF out.committed THEN SetStatus(orders, oid, s) ELSE orders

----------------------------------------------------------------------------
(* OrderManager and IngredientManager of backend_logic.py *)

\* OrderManager.create_order: no validation of its arguments
BlCreateOrder(dish, price, cus, f) ==
    LET out == bl_insert_order(f, IntegrityOk(cus \in DOMAIN customers), lastrowid(orders))
    IN  /\ orders' = IF out.committed
                     THEN Insert(orders, OrderRow(dish, price, cus))
                     ELSE orders
        /\ last' = [NoCall EXCEPT !.op = "create_order", !.impl = "backend_logic",
                                  !.rid = out.rid, !.ret = out.ret]
        /\ issued' = IF out.rid # NoId THEN issued \cup {out.rid} ELSE issued

\* OrderManager.create_bill
BlCreateBill(oid, emp, shp, f) ==
    LET out == bl_execute_query(f, IntegrityOk(BillRefsExist(oid, emp, shp)))
    IN  /\ bills' = IF out.committed
                    THEN Insert(bills, [order_id |-> oid, emp_id |-> emp,
                                        shipper_id |-> shp])
                    ELSE bills
        /\ last' = [NoCall EXCEPT !.op = "create_bill", !.impl = "backend_logic",
                                  !.ret = out.ret]

\* OrderManager.add_delivery
BlAddDelivery(oid, shp, f) ==
    LET out == bl_execute_query(f, IntegrityOk(DeliveryRefsExist(oid, shp)))
    IN  /\ deliveries' = IF out.committed
                         THEN Insert(deliveries, [order_id |-> oid, shipper_id |-> shp])
                         ELSE deliveries
        /\ last' = [NoCall EXCEPT !.op = "add_delivery", !.impl = "backend_logic",
                                  !.ret = out.ret]

\* OrderManager.update_status: the status string goes to the UPDATE unchecked
BlUpdateStatus(oid, s, f) ==
    LET out == bl_execute_query(f, TRUE)
    IN  /\ last' = [NoCall EXCEPT !.op = "update_status", !.impl = "backend_logic",
                                  !.ret = out.ret]
        /\ orders' = IF out.committed THEN SetStatus(orders, oid, s) ELSE orders

\* IngredientManager.deduct_stock_for_order(dish_req_string): prints and
\* returns True; it reads and writes no table.
DeductStockForOrder(dish) ==
    /\ stock' = stock
    /\ last' = [NoCall EXCEPT !.op = "deduct_stock_for_order",
                              !.impl = "backend_logic",
                              !.ret = "True"]

----------------------------------------------------------------------------
(* Reads.  A read runs no commit, so only a failure to open or a failing   *)
(* statement can hit it.  A result is "row" (a fetched row), "rows" (a     *)
(* non-empty list), "[]" (an empty list), "None", or "raise".              *)

ReadFaults == {"open", "exec"}

\* DatabaseManager.execute_query(query, params, fetch_one=True): cur.fetchone()
\* is None when no row matches; every exception is turned into None.
fetch_one(f, rows) ==
    IF f \in ReadFaults THEN "None"
    ELSE IF rows = {} THEN "None" ELSE "row"

\* DatabaseManager.execute_query(query, params): cur.fetchall()
fetch_all(f, rows) ==
    IF f \in ReadFaults THEN "None"
    ELSE IF rows = {} THEN "[]" ELSE "rows"

\* "... or []" of the list methods: None and the empty list both become []
OrEmpty(r) == IF r = "None" \/ r = "[]" THEN "[]" ELSE r

\* backend_logic.execute_query with fetch_one=True: connect() is outside the try
bl_fetch_one(f, rows) ==
    IF f = "open" THEN "raise"
    ELSE IF f = "exec" THEN "None"
    ELSE IF rows = {} THEN "None" ELSE "row"

\* backend_logic.execute_query(query, params): cur.fetchall()
bl_fetch_all(f, rows) ==
    IF f = "open" THEN "raise"
    ELSE IF f = "exec" THEN "None"
    ELSE IF rows = {} THEN "[]" ELSE "rows"

\* FROM Orders o JOIN Customers c ON o.cus_id = c.cus_id
JoinedOrders == {o \in DOMAIN orders : orders[o].cus_id \in DOMAIN customers}

\* FROM Deliveries d JOIN Shippers s ON d.shipper_id = s.shipper_id
\* WHERE d.order_id = ?
JoinedDeliveries(oid) ==
    {d \in DOMAIN deliveries : /\ deliveries[d].order_id = oid
                               /\ deliveries[d].shipper_id \in shippers}

\* OrderManager.get_order_by_id(order_id)
GetOrderById(oid, f) ==
    LET r == fetch_one(f, JoinedOrders \cap {oid})
    IN  last' = [NoCall EXCEPT !.op = "get_order_by_id", !.impl = "claude_logic",
                               !.ret = r, !.rid = IF r = "row" THEN oid ELSE NoId]

\* OrderManager.get_delivery_info(order_id)
GetDeliveryInfo(oid, f) ==
    last' = [NoCall EXCEPT !.op = "get_delivery_info", !.impl = "claude_logic",
                           !.ret = fetch_one(f, JoinedDeliveries(oid))]

\* OrderManager.get_all_orders_details()
GetAllOrdersDetails(f) ==
    last' = [NoCall EXCEPT !.op = "get_all_orders_details", !.impl = "claude_logic",
                           !.ret = OrEmpty(fetch_all(f, JoinedOrders))]

\* OrderManager.get_orders_by_status(status)
GetOrdersByStatus(s, f) ==
    last' = [NoCall EXCEPT !.op = "get_orders_by_status", !.impl = "claude_logic",
                           !.ret = OrEmpty(fetch_all(f,
                                      {o \in JoinedOrders : orders[o].status = s}))]

\* FoodManagementSystem.health_check(): SELECT 1 inside get_connection
HealthCheck(f) ==
    last' = [NoCall EXCEPT !.op = "health_check", !.impl = "claude_logic",
                           !.ret = IF f \in ReadFaults THEN "False" ELSE "True"]

\* backend_logic.OrderManager.get_delivery_info(order_id)
BlGetDeliveryInfo(oid, f) ==
    last' = [NoCall EXCEPT !.op = "get_delivery_info", !.impl = "backend_logic",
                           !.ret = bl_fetch_one(f, JoinedDeliveries(oid))]

\* backend_logic.OrderManager.get_all_orders_details()
BlGetAllOrdersDetails(f) ==
    last' = [NoCall EXCEPT !.op = "get_all_orders_details", !.impl = "backend_logic",
                           !.ret = bl_fetch_all(f, JoinedOrders)]

----------------------------------------------------------------------------
(* CustomerManager of claude_logic.py and of backend_logic.py *)

\* No statement under src/ creates the Customers table or declares cus_phone
\* UNIQUE; CustomerManager.add of claude_logic looks for the phone itself
\* before it inserts.  The store is modelled without such a constraint.
unique_phone == FALSE

\* the customers other than cid that have this phone
WithPhone(phone, cid) ==
    {c \in DOMAIN customers : c # cid /\ customers[c].cus_phone = phone}

UniqueOk(phone, cid) == unique_phone => WithPhone(phone, cid) = {}

\* CustomerManager.get_by_phone(phone)
GetByPhone(phone, f) == fetch_one(f, WithPhone(phone, NoId))

\* CustomerManager.add(name, phone): f1 hits the get_by_phone query, f2 the
\* INSERT.  A failed get_by_phone returns None, as a miss does.
CustomerAdd(name, phone, f1, f2) ==
    LET call == [NoCall EXCEPT !.op = "customer_add", !.impl = "claude_logic"]
    IN  IF name = "" \/ phone = ""
        THEN /\ last' = [call EXCEPT !.ret = "False"]
             /\ UNCHANGED customers
        ELSE IF GetByPhone(phone, f1) = "row"
        THEN /\ last' = [call EXCEPT !.ret = "False"]
             /\ UNCHANGED customers
        ELSE LET out == execute_query(f2, UniqueOk(phone, NoId))
             IN  /\ last' = [call EXCEPT !.ret = Bool(out.ret)]
                 /\ customers' = IF out.committed
                                  THEN Insert(customers, [cus_name |-> name,
                                                          cus_phone |-> phone])
                                  ELSE customers

\* CustomerManager.update(cus_id, name, phone): the UPDATE runs unchecked
CustomerUpdate(cid, name, phone, f) ==
    LET out == execute_query(f, UniqueOk(phone, cid))
    IN  /\ last' = [NoCall EXCEPT !.op = "customer_update", !.impl = "claude_logic",
                                  !.ret = Bool(out.ret)]
        /\ customers' = IF out.committed /\ cid \in DOMAIN customers
                         THEN [customers EXCEPT ![cid] = [cus_name |-> name,
                                                          cus_phone |-> phone]]
                         ELSE customers

\* backend_logic.CustomerManager.add(name, phone): the INSERT runs unchecked
BlCustomerAdd(name, phone, f) ==
    LET out == bl_execute_query(f, UniqueOk(phone, NoId))
    IN  /\ last' = [NoCall EXCEPT !.op = "customer_add", !.impl = "backend_logic",
                                  !.ret = out.ret]
        /\ customers' = IF out.committed
                         THEN Insert(customers, [cus_name |-> name, cus_phone |-> phone])
                         ELSE customers

\* DELETE FROM tbl WHERE id = ?
DeleteRow(tbl, id) == [i \in DOMAIN tbl \ {id} |-> tbl[i]]

\* does the store let a parent row go: no row references it
NoOrderOf(cid) == \A o \in DOMAIN orders : orders[o].cus_id # cid
NoBillOf(eid) == \A b \in DOMAIN bills : bills[b].emp_id # eid

\* CustomerManager.delete(cus_id)
CustomerDelete(cid, f) ==
    LET out == execute_query(f, IntegrityOk(NoOrderOf(cid)))
    IN  /\ last' = [NoCall EXCEPT !.op = "customer_delete", !.impl = "claude_logic",
                                  !.ret = Bool(out.ret)]
        /\ customers' = IF out.committed THEN DeleteRow(customers, cid) ELSE customers

\* EmployeeManager.delete(emp_id)
EmployeeDelete(eid, f) ==
    LET out == execute_query(f, IntegrityOk(NoBillOf(eid)))
    IN  /\ last' = [NoCall EXCEPT !.op = "employee_delete", !.impl = "claude_logic",
                                  !.ret = Bool(out.ret)]
        /\ employees' = IF out.committed THEN employees \ {eid} ELSE employees

----------------------------------------------------------------------------
(* IngredientManager of claude_logic.py and of backend_logic.py.  The table *)
(* Ingredients is kept as ingre_name -> stock, one row per name, and a row  *)
(* is addressed by its name; unit, expiry and suppliers are left out.       *)

\* UPDATE Ingredients SET stock = ? WHERE ingre_id = ?
SetStock(tbl, ingre, new_stock) ==
    [i \in DOMAIN tbl |-> IF i = ingre THEN new_stock ELSE tbl[i]]

\* IngredientManager.add(name, stock, ...)
IngredientAdd(name, new_stock, f) ==
    LET call == [NoCall EXCEPT !.op = "ingredient_add", !.impl = "claude_logic"]
    IN  IF name = "" \/ new_stock < 0
        THEN /\ last' = [call EXCEPT !.ret = "False"]
             /\ UNCHANGED stock
        ELSE LET out == execute_query(f, TRUE)
             IN  /\ last' = [call EXCEPT !.ret = Bool(out.ret)]
                 /\ stock' = IF out.committed
                              THEN [i \in DOMAIN stock \cup {name} |->
                                       IF i = name THEN new_stock ELSE stock[i]]
                              ELSE stock

\* IngredientManager.update_stock(ingre_id, new_stock)
IngredientUpdateStock(ingre, new_stock, f) ==
    LET call == [NoCall EXCEPT !.op = "update_stock", !.impl = "claude_logic"]
    IN  IF new_stock < 0
        THEN /\ last' = [call EXCEPT !.ret = "False"]
             /\ UNCHANGED stock
        ELSE LET out == execute_query(f, TRUE)
             IN  /\ last' = [call EXCEPT !.ret = Bool(out.ret)]
                 /\ stock' = IF out.committed THEN SetStock(stock, ingre, new_stock)
                              ELSE stock

\* IngredientManager.update(ingre_id, name, stock, ...): no check of stock
IngredientUpdate(ingre, new_stock, f) ==
    LET out == execute_query(f, TRUE)
    IN  /\ last' = [NoCall EXCEPT !.op = "ingredient_update", !.impl = "claude_logic",
                                  !.ret = Bool(out.ret)]
        /\ stock' = IF out.committed THEN SetStock(stock, ingre, new_stock) ELSE stock

\* backend_logic.IngredientManager.update_stock(ingre_id, new_stock): no check
BlIngredientUpdateStock(ingre, new_stock, f) ==
    LET out == bl_execute_query(f, TRUE)
    IN  /\ last' = [NoCall EXCEPT !.op = "update_stock", !.impl = "backend_logic",
                                  !.ret = out.ret]
        /\ stock' = IF out.committed THEN SetStock(stock, ingre, new_stock) ELSE stock

----------------------------------------------------------------------------
(* The recipe table that stock deduction needs.  The repository defines no  *)
(* mapping from a dish to ingredient quantities; this one is the example of *)
(* the specification (Bread requires 3 Flour) and a second dish that needs  *)
(* two ingredients.                                                         *)

Requires(dish) ==
    IF dish = "Bread" THEN [i \in Ingredients |-> IF i = "Flour" THEN 3 ELSE 0]
    ELSE IF dish = "Soup" THEN [i \in Ingredients |-> IF i = "Flour" THEN 1 ELSE 2]
    ELSE [i \in Ingredients |-> 0]

\* the ingredients of which the store holds less than the dish request needs
Short(dish, stk) == {i \in Ingredients : stk[i] < Requires(dish)[i]}

----------------------------------------------------------------------------
(* Initial store: one customer, employee and shipper; Salt 1 and Flour 5 or *)
(* 2 (the two stock levels of the specification's Bread example)           *)

\* no Query Executor call has been made and no connection handle is open
NoExecutorCall ==
    [pc |-> "idle", impl |-> "none", f |-> "none", commit |-> FALSE,
     conn |-> FALSE, raised |-> "", handles |-> 0]

\* the two callers that run concurrently
Procs == {1, 2}

\* no concurrent create_order call is in progress; nobody holds the write lock
NoCreateCalls ==
    [pc |-> [p \in Procs |-> "idle"], f |-> [p \in Procs |-> "none"],
     pending |-> [p \in Procs |-> NoId], rid |-> [p \in Procs |-> NoId], lock |-> 0]

\* no concurrent CustomerManager.add call is in progress
NoAddCalls ==
    [pc |-> [p \in Procs |-> "idle"], name |-> [p \in Procs |-> ""],
     ret |-> [p \in Procs |-> "None"]]

\* the reader before its first query
NotReading == [pc |-> "idle", orders_seen |-> {}, stock_seen |-> [i \in Ingredients |-> 0]]

Idle == [stage |-> "idle", failed_at |-> "", oid |-> NoId, dish |-> "",
         stock0 |-> [i \in Ingredients |-> 0]]

Init ==
    /\ orders = NoRows
    /\ bills = NoRows
    /\ deliveries = NoRows
    /\ \E flour \in {2, 5} :
          stock = [i \in Ingredients |-> IF i = "Flour" THEN flour ELSE 1]
    /\ customers = (1 :> [cus_name |-> "An", cus_phone |-> "0901"])
    /\ employees = {1}
    /\ shippers = {1}
    /\ last = NoCall
    /\ issued = {}
    /\ place = Idle
    /\ reader = NotReading
    /\ gw = NoExecutorCall
    /\ cc = NoCreateCalls
    /\ ca = NoAddCalls

OrdersRoom == Cardinality(DOMAIN orders) < MaxOrders
BillsRoom == Cardinality(DOMAIN bills) < MaxBills
DeliveriesRoom == Cardinality(DOMAIN deliveries) < MaxDeliveries
CustomersRoom == Cardinality(DOMAIN customers) < MaxCustomers

----------------------------------------------------------------------------
(* Calls of the workflow operations, one action per operation *)

create_order ==
    /\ OrdersRoom
    /\ \E dish \in DishReqs, price \in Prices, cus \in CusIdArgs, f \in Faults :
          CreateOrder(dish, price, cus, f)
    /\ UNCHANGED <<cc, ca, gw, reader, bills, deliveries, stock, customers, employees, shippers, place>>

create_bill ==
    /\ BillsRoom
    /\ \E oid \in OrderIdArgs, emp \in EmpIdArgs, shp \in ShipperIdArgs, f \in Faults :
          CreateBill(oid, emp, shp, f)
    /\ UNCHANGED <<cc, ca, gw, reader, orders, deliveries, stock, customers, employees, shippers,
                   issued, place>>

add_delivery ==
    /\ DeliveriesRoom
    /\ \E oid \in OrderIdArgs, shp \in ShipperIdArgs, f \in Faults :
          AddDelivery(oid, shp, f)
    /\ UNCHANGED <<cc, ca, gw, reader, orders, bills, stock, customers, employees, shippers,
                   issued, place>>

update_status ==
    /\ \E oid \in OrderIdArgs, s \in StatusArgs, f \in Faults :
          UpdateStatus(oid, s, f)
    /\ UNCHANGED <<cc, ca, gw, reader, bills, deliveries, stock, customers, employees, shippers,
                   issued, place>>

bl_create_order ==
    /\ OrdersRoom
    /\ \E dish \in DishReqs, price \in Prices, cus \in CusIdArgs, f \in Faults :
          BlCreateOrder(dish, price, cus, f)
    /\ UNCHANGED <<cc, ca, gw, reader, bills, deliveries, stock, customers, employees, shippers, place>>

bl_create_bill ==
    /\ BillsRoom
    /\ \E oid \in OrderIdArgs, emp \in EmpIdArgs, shp \in ShipperIdArgs, f \in Faults :
          BlCreateBill(oid, emp, shp, f)
    /\ UNCHANGED <<cc, ca, gw, reader, orders, deliveries, stock, customers, employees, shippers,
                   issued, place>>

bl_add_delivery ==
    /\ DeliveriesRoom
    /\ \E oid \in OrderIdArgs, shp \in ShipperIdArgs, f \in Faults :
          BlAddDelivery(oid, shp, f)
    /\ UNCHANGED <<cc, ca, gw, reader, orders, bills, stock, customers, employees, shippers,
                   issued, place>>

bl_update_status ==
    /\ \E oid \in OrderIdArgs, s \in StatusArgs, f \in Faults :
          BlUpdateStatus(oid, s, f)
    /\ UNCHANGED <<cc, ca, gw, reader, bills, deliveries, stock, customers, employees, shippers,
                   issued, place>>

deduct_stock_for_order ==
    /\ \E dish \in Dishes : DeductStockForOrder(dish)
    /\ UNCHANGED <<cc, ca, gw, reader, orders, bills, deliveries, customers, employees, shippers,
                   issued, place>>

----------------------------------------------------------------------------
(* The composed order placement: create_order, then stock deduction, then   *)
(* create_bill.  The repository has no function that runs the three; each   *)
(* step is the repository's own operation, on its own connection with its   *)
(* own commit, called in this order.                                        *)

place_create_order ==
    /\ place.stage \in {"idle", "done", "recorded", "failed"}
    /\ OrdersRoom
    /\ \E dish \in Dishes, f \in Faults :
          /\ CreateOrder(dish, 4, 1, f)
          /\ place' = IF last'.rid # NoId
                      THEN [stage |-> "ordered", failed_at |-> "", oid |-> last'.rid,
                            dish |-> dish, stock0 |-> stock]
                      ELSE [Idle EXCEPT !.stage = "failed",
                                        !.failed_at = "create_order", !.dish = dish]
    /\ UNCHANGED <<cc, ca, gw, reader, bills, deliveries, stock, customers, employees, shippers>>

place_deduct_stock ==
    /\ place.stage = "ordered"
    /\ DeductStockForOrder(place.dish)
    /\ place' = IF last'.ret = "True"
                THEN [place EXCEPT !.stage = "deducted"]
                ELSE [place EXCEPT !.stage = "failed",
                                   !.failed_at = "deduct_stock_for_order"]
    /\ UNCHANGED <<cc, ca, gw, reader, orders, bills, deliveries, customers, employees, shippers, issued>>

\* a billing step that also marks the billed order Delivered
place_create_bill_marks_delivered ==
    /\ place.stage = "deducted"
    /\ BillsRoom
    /\ \E emp \in EmpIdArgs, shp \in ShipperIdArgs, f \in Faults :
          /\ CreateBill(place.oid, emp, shp, f)
          /\ place' = IF last'.ret = "True"
                      THEN [place EXCEPT !.stage = "done"]
                      ELSE [place EXCEPT !.stage = "failed", !.failed_at = "create_bill"]
          /\ orders' = IF last'.ret = "True"
                       THEN SetStatus(orders, place.oid, "Delivered")
                       ELSE orders
    /\ UNCHANGED <<cc, ca, gw, reader, deliveries, stock, customers, employees, shippers, issued>>

place_create_bill ==
    /\ place.stage = "deducted"
    /\ BillsRoom
    /\ \E emp \in EmpIdArgs, shp \in ShipperIdArgs, f \in Faults :
          /\ CreateBill(place.oid, emp, shp, f)
          /\ place' = IF last'.ret = "True"
                      THEN [place EXCEPT !.stage = "done"]
                      ELSE [place EXCEPT !.stage = "failed", !.failed_at = "create_bill"]
    /\ UNCHANGED <<cc, ca, gw, reader, orders, deliveries, stock, customers, employees, shippers, issued>>

\* the delivery of the placed and billed order is recorded
place_add_delivery ==
    /\ place.stage = "done"
    /\ DeliveriesRoom
    /\ \E shp \in ShipperIdArgs, f \in Faults :
          /\ AddDelivery(place.oid, shp, f)
          /\ place' = IF last'.ret = "True"
                      THEN [place EXCEPT !.stage = "recorded"]
                      ELSE [place EXCEPT !.stage = "failed", !.failed_at = "add_delivery"]
    /\ UNCHANGED <<cc, ca, gw, reader, orders, bills, stock, customers, employees, shippers, issued>>

----------------------------------------------------------------------------
(* One Query Executor call, statement by statement.  gw.handles counts the  *)
(* connections that are open; gw.conn tells whether this call holds one.    *)

\* the executors that open a connection
Executors == {"execute_query", "execute_with_lastrowid",
              "bl_execute_query", "bl_create_order"}

\* the executors of claude_logic.py, which go through get_connection
Scoped == {"execute_query", "execute_with_lastrowid"}

\* where a call fails: "other" is an exception that is no sqlite3.Error,
\* raised by the statement
GwFaults == Faults \cup {"other"}

\* a "finally" that closes only when nothing was raised
closed_unless_raised(impl, conn, raised) ==
    IF conn /\ raised = "" THEN 1 ELSE 0

\* the handles the "finally" block closes: get_connection closes "if conn";
\* backend_logic closes the connection it holds
closed_in_finally(impl, conn, raised) ==
    IF conn THEN 1 ELSE 0

\* a call begins; the cap on open handles bounds a leaking variant
gw_call ==
    /\ gw.pc = "idle"
    /\ gw.handles < MaxHandles
    /\ \E impl \in Executors, f \in GwFaults, commit \in BOOLEAN :
          /\ impl \in {"execute_with_lastrowid", "bl_create_order"} => commit
          /\ gw' = [pc |-> "connect", impl |-> impl, f |-> f, commit |-> commit,
                    conn |-> FALSE, raised |-> "", handles |-> gw.handles]
    /\ UNCHANGED <<store, last, issued, place, reader, cc, ca>>

\* sqlite3.connect: inside the try of get_connection, before the try in
\* backend_logic, where a failure leaves the call at once
gw_connect ==
    /\ gw.pc = "connect"
    /\ gw' = IF gw.f = "open"
              THEN IF gw.impl \in Scoped
                   THEN [gw EXCEPT !.raised = "sqlite", !.pc = "except"]
                   ELSE [gw EXCEPT !.raised = "sqlite", !.pc = "idle"]
              ELSE [gw EXCEPT !.conn = TRUE, !.handles = @ + 1, !.pc = "execute"]
    /\ UNCHANGED <<store, last, issued, place, reader, cc, ca>>

\* cur.execute(query, params)
gw_execute ==
    /\ gw.pc = "execute"
    /\ gw' = IF gw.f = "exec" THEN [gw EXCEPT !.raised = "sqlite", !.pc = "except"]
              ELSE IF gw.f = "other" THEN [gw EXCEPT !.raised = "other", !.pc = "finally"]
              ELSE IF gw.commit THEN [gw EXCEPT !.pc = "commit"]
              ELSE [gw EXCEPT !.pc = "finally"]
    /\ UNCHANGED <<store, last, issued, place, reader, cc, ca>>

\* conn.commit()
gw_commit ==
    /\ gw.pc = "commit"
    /\ gw' = IF gw.f = "commit" THEN [gw EXCEPT !.raised = "sqlite", !.pc = "except"]
              ELSE [gw EXCEPT !.pc = "finally"]
    /\ UNCHANGED <<store, last, issued, place, reader, cc, ca>>

\* except sqlite3.Error: rollback (get_connection: "if conn", then re-raise)
gw_except ==
    /\ gw.pc = "except"
    /\ gw' = [gw EXCEPT !.pc = "finally"]
    /\ UNCHANGED <<store, last, issued, place, reader, cc, ca>>

\* finally: conn.close(); the call returns or the exception goes on
gw_finally ==
    /\ gw.pc = "finally"
    /\ gw' = [gw EXCEPT !.handles = @ - closed_in_finally(gw.impl, gw.conn, gw.raised),
                        !.conn = FALSE, !.pc = "idle"]
    /\ UNCHANGED <<store, last, issued, place, reader, cc, ca>>

----------------------------------------------------------------------------
(* Two callers run claude_logic create_order at the same time, each on its  *)
(* own connection.  The INSERT takes the write lock of the store file; a    *)
(* second writer waits and, when its timeout expires, gets "database is     *)
(* locked" from cur.execute.  The lock is released by commit or rollback.   *)

\* does cur.execute of caller p find the store locked by the other caller
Busy(lock, p) == lock \notin {0, p}

\* the row an INSERT wrote under the id it was given
InsertAt(tbl, id, row) ==
    [i \in DOMAIN tbl \cup {id} |-> IF i = id THEN row ELSE tbl[i]]

\* create_order is called: validation passes, sqlite3.connect runs
cc_call ==
    /\ OrdersRoom
    /\ \E p \in Procs, f \in Faults :
          /\ cc.pc[p] \in {"idle", "returned"}
          /\ cc' = IF f = "open"
                    THEN [cc EXCEPT !.pc[p] = "returned", !.f[p] = f,
                                    !.pending[p] = NoId,
                                    !.rid[p] = execute_with_lastrowid(f, TRUE, NoId).rid]
                    ELSE [cc EXCEPT !.pc[p] = "execute", !.f[p] = f,
                                    !.pending[p] = NoId, !.rid[p] = NoId]
    /\ UNCHANGED <<store, last, issued, place, reader, gw, ca>>

\* cur.execute(INSERT) and cur.lastrowid: fails on a locked store or a failing
\* statement, else takes the lock and gets its row id
cc_execute ==
    /\ \E p \in Procs :
          /\ cc.pc[p] = "execute"
          /\ cc' = IF Busy(cc.lock, p) \/ cc.f[p] = "exec"
                    THEN [cc EXCEPT !.pc[p] = "returned",
                                    !.rid[p] = execute_with_lastrowid("exec", TRUE, NoId).rid]
                    ELSE [cc EXCEPT !.pc[p] = "commit", !.lock = p,
                                    !.pending[p] = lastrowid(orders)]
    /\ UNCHANGED <<store, last, issued, place, reader, gw, ca>>

\* conn.commit() and the return of the call; a failed commit is rolled back
cc_commit ==
    /\ \E p \in Procs :
          /\ cc.pc[p] = "commit"
          /\ LET out == execute_with_lastrowid(cc.f[p], TRUE, cc.pending[p])
             IN  /\ orders' = IF out.committed
                              THEN InsertAt(orders, cc.pending[p], OrderRow("Bread", 4, 1))
                              ELSE orders
                 /\ cc' = [cc EXCEPT !.pc[p] = "returned", !.rid[p] = out.rid,
                                     !.lock = IF @ = p THEN 0 ELSE @]
                 /\ issued' = IF out.rid # NoId THEN issued \cup {out.rid} ELSE issued
    /\ UNCHANGED <<bills, deliveries, stock, customers, employees, shippers,
                   last, place, reader, gw, ca>>

----------------------------------------------------------------------------
(* Two callers run CustomerManager.add of claude_logic with the same phone  *)
(* at the same time.  get_by_phone and the INSERT are two execute_query     *)
(* calls, each on a connection of its own.                                  *)

\* the phone both callers pass
RacePhone == "0902"

\* add is called: if not name or not phone: return False
ca_call ==
    /\ CustomersRoom
    /\ \E p \in Procs, name \in CusNames :
          /\ ca.pc[p] \in {"idle", "returned"}
          /\ ca' = IF name = ""
                    THEN [ca EXCEPT !.pc[p] = "returned", !.name[p] = name,
                                    !.ret[p] = "False"]
                    ELSE [ca EXCEPT !.pc[p] = "check", !.name[p] = name,
                                    !.ret[p] = "None"]
    /\ UNCHANGED <<store, last, issued, place, reader, gw, cc>>

\* if self.get_by_phone(phone): return False
ca_check ==
    /\ \E p \in Procs, f \in Faults :
          /\ ca.pc[p] = "check"
          /\ ca' = IF GetByPhone(RacePhone, f) = "row"
                    THEN [ca EXCEPT !.pc[p] = "returned", !.ret[p] = "False"]
                    ELSE [ca EXCEPT !.pc[p] = "insert"]
    /\ UNCHANGED <<store, last, issued, place, reader, gw, cc>>

\* the INSERT with its commit, and the return of bool(result)
ca_insert ==
    /\ \E p \in Procs, f \in Faults :
          /\ ca.pc[p] = "insert"
          /\ LET out == execute_query(f, UniqueOk(RacePhone, NoId))
             IN  /\ customers' = IF out.committed
                                 THEN Insert(customers, [cus_name |-> ca.name[p],
                                                         cus_phone |-> RacePhone])
                                 ELSE customers
                 /\ ca' = [ca EXCEPT !.pc[p] = "returned", !.ret[p] = Bool(out.ret)]
    /\ UNCHANGED <<orders, bills, deliveries, stock, employees, shippers,
                   last, issued, place, reader, gw, cc>>

----------------------------------------------------------------------------
(* Specifications *)

\* ingredient rows a caller can address: the two of the recipes and the added one
IngreArgs == Ingredients \cup (IngreNames \ {""})

IngredientFrame ==
    UNCHANGED <<orders, bills, deliveries, customers, employees, shippers,
                issued, place, reader, gw, cc, ca>>

\* the model holds one row per ingredient name
ingredient_add ==
    /\ \E name \in IngreNames, s \in StockArgs, f \in Faults :
          name \notin DOMAIN stock /\ IngredientAdd(name, s, f)
    /\ IngredientFrame

ingredient_update_stock ==
    /\ \E i \in IngreArgs, s \in StockArgs, f \in Faults : IngredientUpdateStock(i, s, f)
    /\ IngredientFrame

ingredient_update ==
    /\ \E i \in IngreArgs, s \in StockArgs, f \in Faults : IngredientUpdate(i, s, f)
    /\ IngredientFrame

bl_ingredient_update_stock ==
    /\ \E i \in IngreArgs, s \in StockArgs, f \in Faults : BlIngredientUpdateStock(i, s, f)
    /\ IngredientFrame

customer_add ==
    /\ CustomersRoom
    /\ \E name \in CusNames, phone \in CusPhones, f1 \in Faults, f2 \in Faults :
          CustomerAdd(name, phone, f1, f2)
    /\ UNCHANGED <<orders, bills, deliveries, stock, employees, shippers,
                   issued, place, reader, gw, cc, ca>>

customer_update ==
    /\ \E cid \in 1..MaxCustomers, name \in CusNames, phone \in CusPhones,
          f \in Faults :
          CustomerUpdate(cid, name, phone, f)
    /\ UNCHANGED <<orders, bills, deliveries, stock, employees, shippers,
                   issued, place, reader, gw, cc, ca>>

bl_customer_add ==
    /\ CustomersRoom
    /\ \E name \in CusNames, phone \in CusPhones, f \in Faults :
          BlCustomerAdd(name, phone, f)
    /\ UNCHANGED <<orders, bills, deliveries, stock, employees, shippers,
                   issued, place, reader, gw, cc, ca>>

customer_delete ==
    /\ \E cid \in CusIdArgs, f \in Faults : CustomerDelete(cid, f)
    /\ UNCHANGED <<orders, bills, deliveries, stock, employees, shippers,
                   issued, place, reader, gw, cc, ca>>

employee_delete ==
    /\ \E eid \in EmpIdArgs, f \in Faults : EmployeeDelete(eid, f)
    /\ UNCHANGED <<orders, bills, deliveries, stock, customers, shippers,
                   issued, place, reader, gw, cc, ca>>

\* A reader on its own connection, concurrent with the placement: one read
\* transaction in which get_all_orders_details and IngredientManager.get_all
\* both succeed, so that it sees the two tables at one instant.
reader_observe ==
    /\ GetAllOrdersDetails("none")
    /\ reader' = [pc |-> "done", orders_seen |-> JoinedOrders, stock_seen |-> stock]
    /\ UNCHANGED <<store, issued, place, gw, cc, ca>>

\* a read changes no table
ReadFrame == UNCHANGED <<store, issued, place, reader, gw, cc, ca>>

get_order_by_id ==
    /\ \E oid \in OrderIdArgs, f \in Faults : GetOrderById(oid, f)
    /\ ReadFrame

get_delivery_info ==
    /\ \E oid \in OrderIdArgs, f \in Faults : GetDeliveryInfo(oid, f)
    /\ ReadFrame

get_all_orders_details ==
    /\ \E f \in Faults : GetAllOrdersDetails(f)
    /\ ReadFrame

get_orders_by_status ==
    /\ \E s \in OrderStatus, f \in Faults : GetOrdersByStatus(s, f)
    /\ ReadFrame

health_check ==
    /\ \E f \in Faults : HealthCheck(f)
    /\ ReadFrame

bl_get_delivery_info ==
    /\ \E oid \in OrderIdArgs, f \in Faults : BlGetDeliveryInfo(oid, f)
    /\ ReadFrame

bl_get_all_orders_details ==
    /\ \E f \in Faults : BlGetAllOrdersDetails(f)
    /\ ReadFrame

Next ==
    \/ create_order
    \/ create_bill
    \/ add_delivery
    \/ update_status
    \/ bl_create_order
    \/ bl_create_bill
    \/ bl_add_delivery
    \/ bl_update_status
    \/ deduct_stock_for_order
    \/ place_create_order
    \/ place_deduct_stock
    \/ place_create_bill
    \/ place_add_delivery
    \/ get_order_by_id
    \/ get_delivery_info
    \/ get_all_orders_details
    \/ get_orders_by_status
    \/ health_check
    \/ bl_get_delivery_info
    \/ bl_get_all_orders_details
    \/ reader_observe
    \/ customer_add
    \/ customer_update
    \/ bl_customer_add
    \/ ingredient_add
    \/ ingredient_update_stock
    \/ ingredient_update
    \/ bl_ingredient_update_stock
    \/ gw_call
    \/ gw_connect
    \/ gw_execute
    \/ gw_commit
    \/ gw_except
    \/ gw_finally
    \/ customer_delete
    \/ employee_delete
    \/ cc_call
    \/ cc_execute
    \/ cc_commit
    \/ ca_call
    \/ ca_check
    \/ ca_insert

Spec == Init /\ [][Next]_vars

\* order creation alone, by both back ends
NextOrders == create_order \/ bl_create_order
SpecOrders == Init /\ [][NextOrders]_vars

\* the status life cycle of the orders the UI creates
NextStatus == create_order \/ update_status \/ bl_update_status
SpecStatus == Init /\ [][NextStatus]_vars

\* the reads of orders and deliveries, with the writes that fill the tables
NextReads ==
    \/ create_order
    \/ add_delivery
    \/ bl_add_delivery
    \/ get_order_by_id
    \/ get_delivery_info
    \/ get_all_orders_details
    \/ get_orders_by_status
    \/ health_check
    \/ bl_get_delivery_info
    \/ bl_get_all_orders_details
SpecReads == Init /\ [][NextReads]_vars

\* the life of an order: placed, billed, its delivery recorded
NextFulfil ==
    \/ place_create_order
    \/ place_deduct_stock
    \/ place_create_bill
    \/ place_add_delivery
SpecFulfil == Init /\ [][NextFulfil]_vars

\* the connection handling of the Query Executors
NextGateway ==
    \/ gw_call
    \/ gw_connect
    \/ gw_execute
    \/ gw_commit
    \/ gw_except
    \/ gw_finally
SpecGateway == Init /\ [][NextGateway]_vars

\* orders and bills with the removal of the rows they reference
NextDeletes ==
    \/ create_order
    \/ place_create_order
    \/ place_deduct_stock
    \/ place_create_bill
    \/ customer_delete
    \/ employee_delete
    \/ get_order_by_id
    \/ get_all_orders_details
SpecDeletes == Init /\ [][NextDeletes]_vars

\* two concurrent create_order calls
NextConcurrentOrders == cc_call \/ cc_execute \/ cc_commit
SpecConcurrentOrders == Init /\ [][NextConcurrentOrders]_vars

\* two concurrent CustomerManager.add calls with one phone
NextConcurrentAdds == ca_call \/ ca_check \/ ca_insert
SpecConcurrentAdds == Init /\ [][NextConcurrentAdds]_vars

\* the Ingredients table
NextIngredients ==
    \/ ingredient_add
    \/ ingredient_update_stock
    \/ ingredient_update
    \/ bl_ingredient_update_stock
SpecIngredients == Init /\ [][NextIngredients]_vars

\* the Customers table
NextCustomers == customer_add \/ customer_update \/ bl_customer_add
SpecCustomers == Init /\ [][NextCustomers]_vars

\* billing and delivery of the orders the UI creates
NextRefs ==
    \/ create_order
    \/ create_bill
    \/ add_delivery
    \/ bl_create_bill
    \/ bl_add_delivery
SpecRefs == Init /\ [][NextRefs]_vars

\* the composed placement and stock deduction
NextPlace ==
    \/ place_create_order
    \/ place_deduct_stock
    \/ place_create_bill
    \/ deduct_stock_for_order
SpecPlace == Init /\ [][NextPlace]_vars

----------------------------------------------------------------------------
(* The legal transitions of the Status State Machine *)

LegalTransitions ==
    {<<"Pending", "Preparing">>, <<"Pending", "Cancelled">>,
     <<"Preparing", "Ready">>, <<"Preparing", "Cancelled">>,
     <<"Ready", "Delivered">>, <<"Ready", "Cancelled">>}

Legal(from, to) == <<from, to>> \in LegalTransitions

Terminal == {"Delivered", "Cancelled"}

\* a call of update_status, of either back end, with these arguments and
\* this store behaviour
UpdateStatusCall(oid, s, f) == UpdateStatus(oid, s, f) \/ BlUpdateStatus(oid, s, f)

\* a call of create_order, of either back end
CreateOrderCall(dish, price, cus, f) ==
    CreateOrder(dish, price, cus, f) \/ BlCreateOrder(dish, price, cus, f)

\* store errors that strike inside an open transaction
TxnFaults == {"exec", "commit"}

----------------------------------------------------------------------------
(* Claims *)

\* C1: for every order and every pair (current status, requested status)
\* that is not a legal transition, update_status reports failure and the
\* stored status of that order is unchanged.
C1_IllegalTransitionRejected ==
    [][\A oid \in DOMAIN orders, s \in StatusArgs, f \in Faults :
          (UpdateStatusCall(oid, s, f) /\ ~Legal(orders[oid].status, s))
              => (last'.ret # "True" /\ orders'[oid].status = orders[oid].status)]_vars

\* C2: when the composed placement fails at the bill-creation step, no Order
\* row and no Bill row of that placement is in the store and the stock is
\* what it was before the placement.
C2_FailedPlacementLeavesNothing ==
    (place.stage = "failed" /\ place.failed_at = "create_bill")
        => /\ place.oid \notin DOMAIN orders
           /\ stock = place.stock0
           /\ \A b \in DOMAIN bills : bills[b].order_id # place.oid

\* C3: stock is never negative, and a deduct_stock_for_order call that needs
\* more of some ingredient than the store holds fails and changes no stock.
C3_ShortDeductionFails ==
    [][/\ \A i \in Ingredients : stock'[i] >= 0
       /\ \A dish \in Dishes :
             (DeductStockForOrder(dish) /\ Short(dish, stock) # {})
                 => (last'.ret # "True" /\ stock' = stock)]_vars

\* C4: every create_order call with a non-empty dish request and a positive
\* total price that returns an id returns one strictly greater than every id
\* returned before, and the row stored under that id has status Pending.
C4_IdsIncreaseAndRowPending ==
    [][\A dish \in DishReqs \ {""}, price \in {p \in Prices : p > 0},
          cus \in CusIdArgs, f \in Faults :
          (CreateOrderCall(dish, price, cus, f) /\ last'.rid # NoId)
              => /\ \A i \in issued : last'.rid > i
                 /\ last'.rid \in DOMAIN orders'
                 /\ orders'[last'.rid].status = PENDING]_vars

\* C5: create_bill and add_delivery called with an order id, employee id or
\* shipper id that is not in the store report failure and insert no row.
C5_DanglingReferenceRejected ==
    [][/\ \A oid \in OrderIdArgs, emp \in EmpIdArgs, shp \in ShipperIdArgs,
             f \in Faults :
             ((CreateBill(oid, emp, shp, f) \/ BlCreateBill(oid, emp, shp, f))
                 /\ ~BillRefsExist(oid, emp, shp))
                 => (last'.ret # "True" /\ bills' = bills)
       /\ \A oid \in OrderIdArgs, shp \in ShipperIdArgs, f \in Faults :
             ((AddDelivery(oid, shp, f) \/ BlAddDelivery(oid, shp, f))
                 /\ ~DeliveryRefsExist(oid, shp))
                 => (last'.ret # "True" /\ deliveries' = deliveries)]_vars

\* C6: a placement whose dishes need no more than the store holds gets past
\* stock deduction with every ingredient decreased by exactly the required
\* quantity; a placement that is short of an ingredient fails at stock
\* deduction with all stock unchanged.
C6_PlacementDeductsStock ==
    /\ place.stage \in {"deducted", "done"}
          => /\ Short(place.dish, place.stock0) = {}
             /\ \A i \in Ingredients :
                   stock[i] = place.stock0[i] - Requires(place.dish)[i]
    /\ (place.stage = "failed" /\ place.failed_at = "deduct_stock_for_order")
          => stock = place.stock0

C8_TerminalAbsorbing ==
    [][\A o \in DOMAIN orders :
          orders[o].status \in Terminal => orders'[o].status = orders[o].status]_vars

\* C9: update_status called with a string that is no member of OrderStatus
\* reports failure and writes nothing, for every order and current status.
C9_UnknownStatusRejected ==
    [][\A oid \in OrderIdArgs, s \in StatusArgs \ OrderStatus, f \in Faults :
          UpdateStatusCall(oid, s, f)
              => (last'.ret # "True" /\ orders' = orders)]_vars

\* C10: for every existing order and every legal transition (current status,
\* requested status), update_status on a store that raises no error reports
\* success and the stored status of that order becomes the requested one.
C10_LegalTransitionApplied ==
    [][\A oid \in DOMAIN orders, s \in OrderStatus :
          (Legal(orders[oid].status, s) /\ UpdateStatusCall(oid, s, "none"))
              => (last'.ret = "True" /\ orders'[oid].status = s)]_vars

\* update_status reported success and an order is Delivered
C10_Witness ==
    /\ last.op = "update_status"
    /\ last.ret = "True"
    /\ \E o \in DOMAIN orders : orders[o].status = "Delivered"


\* C11: in every reachable state, after any sequence of create_order and
\* update_status calls, the stored status of every order is a member of
\* OrderStatus.
C11_StatusInEnum ==
    \A o \in DOMAIN orders : orders[o].status \in OrderStatus

\* C12: create_order called with an empty dish request or with a total price
\* <= 0 returns no id and inserts no Order row; the store is unchanged.
C12_InvalidOrderRejected ==
    [][\A dish \in DishReqs, price \in Prices, cus \in CusIdArgs, f \in Faults :
          ((dish = "" \/ price <= 0) /\ CreateOrderCall(dish, price, cus, f))
              => (last'.rid = NoId /\ last'.ret # "id" /\ store' = store)]_vars


\* C13: every order has at most one Bill row and at most one Delivery row.
C13_OneBillOneDeliveryPerOrder ==
    /\ \A b1, b2 \in DOMAIN bills :
          bills[b1].order_id = bills[b2].order_id => b1 = b2
    /\ \A d1, d2 \in DOMAIN deliveries :
          deliveries[d1].order_id = deliveries[d2].order_id => d1 = d2

\* the order in which a deduction would examine the ingredients, and the
\* failure value that names one of them
IngredientOrder == <<"Flour", "Salt">>

FirstShort(dish, stk) ==
    LET idx == {k \in DOMAIN IngredientOrder : IngredientOrder[k] \in Short(dish, stk)}
    IN  IngredientOrder[CHOOSE k \in idx : \A j \in idx : k <= j]

InsufficientStock(i) ==
    IF i = "Flour" THEN "InsufficientStock(Flour)" ELSE "InsufficientStock(Salt)"

\* C18: a deduct_stock_for_order call for which at least one required
\* ingredient is short reports InsufficientStock naming the first deficient
\* ingredient.
C18_InsufficientStockNamesFirst ==
    [][\A dish \in Dishes :
          (Short(dish, stock) # {} /\ DeductStockForOrder(dish))
              => last'.ret = InsufficientStock(FirstShort(dish, stock))]_vars

\* C19: backend_logic.OrderManager.create_order returns an id only when the
\* Order row under that id was committed, also when the failure is at commit.
C19_IdOnlyWhenCommitted ==
    [][\A dish \in DishReqs, price \in Prices, cus \in CusIdArgs, f \in Faults :
          (BlCreateOrder(dish, price, cus, f) /\ last'.rid # NoId)
              => (last'.rid \in DOMAIN orders' /\ last'.rid \notin DOMAIN orders)]_vars


\* what a single-row read returns when the query ran and matched no row
NotFound == fetch_one("none", {})

\* C14: a single-row read (get_order_by_id, get_delivery_info) whose query
\* failed returns a result different from the one it returns when the query
\* ran and matched no row.
C14_FailedReadIsNotNotFound ==
    [][\A oid \in OrderIdArgs, f \in ReadFaults :
          (GetOrderById(oid, f) \/ GetDeliveryInfo(oid, f) \/ BlGetDeliveryInfo(oid, f))
              => last'.ret # NotFound]_vars

\* C15: no call of create_order, create_bill, add_delivery, update_status,
\* get_order_by_id or get_delivery_info lets an exception of the store escape
\* to its caller, whether the store fails at open, at the statement or at
\* commit.
C15_NoStoreExceptionEscapes ==
    (last.op \in {"create_order", "create_bill", "add_delivery", "update_status",
                  "get_order_by_id", "get_delivery_info"})
        => last.ret # "raise"

\* results that a successful read of an empty table or a miss also gives
EmptyResults == {OrEmpty(fetch_all("none", {})), NotFound}

\* C16: when the store cannot be opened, a read reports a failure that differs
\* from a successful empty result; the list operations do not return an empty
\* list, and health_check does not report the store as accessible.
C16_OpenFailureIsReported ==
    [][/\ \A oid \in OrderIdArgs :
             (GetOrderById(oid, "open") \/ GetDeliveryInfo(oid, "open"))
                 => last'.ret \notin EmptyResults
       /\ \A s \in OrderStatus :
             (GetAllOrdersDetails("open") \/ GetOrdersByStatus(s, "open"))
                 => last'.ret \notin EmptyResults
       /\ HealthCheck("open") => last'.ret # "True"]_vars


\* the stock after the deduction of a dish request
Deducted(stk, dish) == [i \in Ingredients |-> stk[i] - Requires(dish)[i]]

\* the composed placement interleaved with a reader
NextReader == NextPlace \/ reader_observe
SpecReader == Init /\ [][NextReader]_vars

\* C17: under every interleaving of a reader with an order placement, the
\* reader sees the new Order row exactly when it sees the stock deduction of
\* that placement: never the row without the deduction, never the deduction
\* without the row.
C17_ReaderSeesOrderWithDeduction ==
    (reader.pc = "done" /\ place.oid # NoId)
        => (place.oid \in reader.orders_seen
              <=> reader.stock_seen = Deducted(place.stock0, place.dish))


\* C20: after any sequence of CustomerManager.add and CustomerManager.update
\* calls, no two customers have the same phone.
C20_PhoneUnique ==
    \A c1, c2 \in DOMAIN customers :
        customers[c1].cus_phone = customers[c2].cus_phone => c1 = c2


\* C24: a successful update_status(order_id, s) changes only the status field
\* of the order with that id: its other fields, every other order, and all
\* Bill and Delivery rows are unchanged.
C24_UpdateStatusFrame ==
    [][(last'.op = "update_status" /\ last'.ret = "True")
          => \A oid \in OrderIdArgs, s \in StatusArgs :
                UpdateStatusCall(oid, s, "none")
                    => /\ DOMAIN orders' = DOMAIN orders
                       /\ \A o \in DOMAIN orders :
                             /\ o # oid => orders'[o] = orders[o]
                             /\ orders'[o] = [orders[o] EXCEPT !.status = orders'[o].status]
                       /\ bills' = bills
                       /\ deliveries' = deliveries]_vars

\* a successful update_status has moved one order off Pending while another
\* order is still Pending
C24_Witness ==
    /\ last.op = "update_status"
    /\ last.ret = "True"
    /\ \E o1, o2 \in DOMAIN orders :
          orders[o1].status = "Preparing" /\ orders[o2].status = "Pending"

\* C29: update_status returns True only if an order with the given id exists
\* and its stored status was set to the requested status; with an id that
\* matches no order it does not report success.
C29_SuccessMeansRowUpdated ==
    [][(last'.op = "update_status" /\ last'.ret = "True")
          => \A oid \in OrderIdArgs, s \in StatusArgs :
                UpdateStatusCall(oid, s, "none")
                    => (oid \in DOMAIN orders' /\ orders'[oid].status = s)]_vars


\* C25: the status of an existing order changes only through update_status:
\* create_order, create_bill and add_delivery leave the status of every
\* existing order unchanged, so an order is still Pending after it was billed
\* and its delivery recorded.
C25_StatusOnlyByUpdateStatus ==
    [][\A o \in DOMAIN orders :
          \/ last'.op = "update_status"
          \/ (o \in DOMAIN orders' /\ orders'[o].status = orders[o].status)]_vars

\* an order that was placed and billed and whose delivery is recorded, status
\* Pending
C25_Witness ==
    /\ place.stage = "recorded"
    /\ place.oid \in DOMAIN orders
    /\ orders[place.oid].status = PENDING
    /\ \E b \in DOMAIN bills : bills[b].order_id = place.oid
    /\ \E d \in DOMAIN deliveries : deliveries[d].order_id = place.oid


\* C21: after any sequence of IngredientManager.add, update_stock and update
\* calls every ingredient's stock is >= 0 (a call that would store a negative
\* stock stores nothing).
C21_StockNeverNegative ==
    \A i \in DOMAIN stock : stock[i] >= 0


\* C22: every connection a Query Executor call opens is closed by the time
\* the call returns, on every exit path: whenever no call is in progress, no
\* handle is open.
C22_NoOpenHandleAfterCall ==
    gw.pc = "idle" => (gw.handles = 0 /\ ~gw.conn)

\* a call that held a connection has ended with an exception raised in it
C22_Witness ==
    /\ gw.pc = "idle"
    /\ gw.impl = "bl_create_order"
    /\ gw.f = "commit"
    /\ gw.raised = "sqlite"


\* C23: in every reachable state every Order references an existing
\* Customer, every Bill an existing Order, Employee and Shipper, and every
\* Delivery an existing Order and Shipper, also after CustomerManager.delete
\* and EmployeeManager.delete.
C23_ReferencesExist ==
    /\ \A o \in DOMAIN orders : orders[o].cus_id \in DOMAIN customers
    /\ \A b \in DOMAIN bills :
          BillRefsExist(bills[b].order_id, bills[b].emp_id, bills[b].shipper_id)
    /\ \A d \in DOMAIN deliveries :
          DeliveryRefsExist(deliveries[d].order_id, deliveries[d].shipper_id)

\* C30: an order for which create_order returned an id stays retrievable:
\* in every later state get_order_by_id(id) returns that order and
\* get_all_orders_details lists it.
C30_IssuedOrderRetrievable ==
    [][\A oid \in issued :
          /\ GetOrderById(oid, "none") => (last'.ret = "row" /\ last'.rid = oid)
          /\ GetAllOrdersDetails("none") => oid \in JoinedOrders]_vars


\* C26: a failed operation tells its caller which kind of failure occurred:
\* update_status rejected for its status returns a result different from the
\* one it returns when the store fails, and a connection failure gives a
\* result different from a failed statement.
C26_FailureKindsDiffer ==
    [][\A oid \in OrderIdArgs :
          /\ UpdateStatus(oid, "Shipped", "none")
                => \A f \in Faults \ {"none"} :
                      last'.ret # Bool(execute_query(f, TRUE).ret)
          /\ UpdateStatus(oid, "Preparing", "open")
                => last'.ret # Bool(execute_query("exec", TRUE).ret)]_vars


\* C27: under every interleaving of two concurrent create_order calls the
\* writes are serialized: a call that returns an id returns one that no call
\* returned before, the row under that id is committed by this call and no
\* other row changes; a call that finds the store busy, or fails otherwise,
\* returns no id and commits nothing.
C27_ConcurrentCreatesSerialized ==
    [][\A p \in Procs :
          (cc.pc[p] # "returned" /\ cc'.pc[p] = "returned")
              => /\ (cc.pc[p] = "execute" /\ Busy(cc.lock, p)) => cc'.rid[p] = NoId
                 /\ IF cc'.rid[p] # NoId
                    THEN /\ cc'.rid[p] \notin issued
                         /\ cc'.rid[p] \notin DOMAIN orders
                         /\ DOMAIN orders' = DOMAIN orders \cup {cc'.rid[p]}
                         /\ \A o \in DOMAIN orders : orders'[o] = orders[o]
                    ELSE orders' = orders]_vars

\* one caller has its order committed while the other, which met no fault of
\* its own, lost to the busy store and returned no id
C27_Witness ==
    \E p, q \in Procs :
        /\ cc.pc[p] = "returned" /\ cc.rid[p] # NoId /\ cc.rid[p] \in DOMAIN orders
        /\ cc.pc[q] = "returned" /\ cc.rid[q] = NoId /\ cc.f[q] = "none"


\* C28: under every interleaving of two concurrent CustomerManager.add calls
\* with the same phone, at most one call returns True and at most one
\* customer with that phone exists.
C28_ConcurrentAddOnePhone ==
    /\ ~(\A p \in Procs : ca.pc[p] = "returned" /\ ca.ret[p] = "True")
    /\ Cardinality(WithPhone(RacePhone, NoId)) <= 1

====
